---- MODULE Spec2Model ----
(***************************************************************************)
(* SubstrateTransactionPool of substrate-service/src/transaction_pool.rs:  *)
(* the ten publish_* entry points, the future that                         *)
(* submit_response_transaction builds and spawns, and serialize_threshold. *)
(*                                                                         *)
(* A task is one future handed to executor.spawn.  The executor holds the  *)
(* tasks in slots; a finished future is dropped by the executor (Reap) and *)
(* its slot is used by a later invocation.  Everything one invocation did  *)
(* (gate queries issued, builder runs, submissions, log events) is kept in *)
(* its task record, so that the statements about "one invocation" are      *)
(* statements about one record.                                            *)
(***************************************************************************)
EXTENDS Integers, Sequences, FiniteSets, TLC

VARIABLES
    key_server_address, \* SubstrateTransactionPool.key_server_address
    tasks,              \* the futures spawned on the executor, by slot
    published,          \* number of publish_* calls made so far
    threshold,          \* input of the threshold codec run (SpecThreshold)
    serialized          \* result of the threshold codec run (SpecThreshold)

vars == <<key_server_address, tasks, published, threshold, serialized>>

---------------------------------------------------------------------------
(* Bounds and input domains *)

MaxInvocations == 3     \* publish_* calls in one behaviour
MaxThreshold == 600     \* largest threshold given to serialize_threshold
U8Max == 255            \* ::std::u8::MAX

Slots == {1, 2}         \* tasks the executor holds at the same time
NodeAddresses == {1, 2}
Origins == {1}
KeyIds == {1, 2}
Requesters == {"sig", "bad"}
Thresholds == {0, 255, 256}
Participants == {1, 2}
ServerKeys == {"server_key"}
CommonPoints == {"common_point"}
EncryptedDocumentKeys == {"encrypted_document_key"}
TransactionHashes == {"0xH"}
GateErrors == {"ledger unavailable"}
SubmitErrors == {"pool full"}

NoAddress == 0
NoRequester == "none"

\* artifacts.participants_coefficients: a map from participant address to
\* its coefficient
CoefficientMaps == {[p \in S |-> 10 + p] : S \in SUBSET Participants}

---------------------------------------------------------------------------
(* Result<T, String> *)

Ok(v) == [ok |-> TRUE, val |-> v]
Err(e) == [ok |-> FALSE, err |-> e]

---------------------------------------------------------------------------
(* Pure functions *)

\* a codec that narrows without the range check
serialize_threshold_Truncating(t) ==
    Ok(t % 256)

\* a threshold of usize narrowed to u8: `threshold as _` keeps the low byte
serialize_threshold(t) ==
    IF t > U8Max
    THEN Err(<<"invalid threshold to use in service contract", t>>)
    ELSE Ok(t % 256)

\* Requester::address(&key_id): the requester address derived from the
\* credential and the key id; fails for a malformed credential
RequesterAddress(requester, key_id) ==
    IF requester = "sig"
    THEN Ok(10 + key_id)
    ELSE Err(<<"invalid requester", requester>>)

\* BTreeMap::keys().cloned().collect::<Vec<_>>(): the keys in ascending order
RECURSIVE KeysOf(_)
KeysOf(S) ==
    IF S = {} THEN <<>>
    ELSE LET m == CHOOSE x \in S : \A y \in S : x <= y
         IN <<m>> \o KeysOf(S \ {m})

---------------------------------------------------------------------------
(* SecretStoreCall: the variants this file constructs *)

ServerKeyGenerated(key_id, key) ==
    [variant |-> "ServerKeyGenerated", key_id |-> key_id, key |-> key]
ServerKeyGenerationError(key_id) ==
    [variant |-> "ServerKeyGenerationError", key_id |-> key_id]
ServerKeyRetrieved(key_id, key, th) ==
    [variant |-> "ServerKeyRetrieved", key_id |-> key_id, key |-> key,
     threshold |-> th]
ServerKeyRetrievalError(key_id) ==
    [variant |-> "ServerKeyRetrievalError", key_id |-> key_id]
DocumentKeyStored(key_id) ==
    [variant |-> "DocumentKeyStored", key_id |-> key_id]
DocumentKeyStoreError(key_id) ==
    [variant |-> "DocumentKeyStoreError", key_id |-> key_id]
DocumentKeyCommonRetrieved(key_id, requester, common_point, th) ==
    [variant |-> "DocumentKeyCommonRetrieved", key_id |-> key_id,
     requester |-> requester, common_point |-> common_point,
     threshold |-> th]
DocumentKeyShadowRetrievalError(key_id, requester) ==
    [variant |-> "DocumentKeyShadowRetrievalError", key_id |-> key_id,
     requester |-> requester]
DocumentKeyPersonalRetrieved(key_id, requester, participants, doc_key, coeff) ==
    [variant |-> "DocumentKeyPersonalRetrieved", key_id |-> key_id,
     requester |-> requester, participants |-> participants,
     encrypted_document_key |-> doc_key, self_coefficient |-> coeff]

---------------------------------------------------------------------------
(* The prepare_response closures of the entry points.  c is what the       *)
(* closure captured: key_id, requester, artifacts, key_server_address.     *)

prepare_generated_server_key(c) ==
    Ok(ServerKeyGenerated(c.key_id, c.artifacts.key))

prepare_server_key_generation_error(c) ==
    Ok(ServerKeyGenerationError(c.key_id))

\* a builder that narrows the threshold with a cast
prepare_retrieved_server_key_Cast(c) ==
    Ok(ServerKeyRetrieved(c.key_id, c.artifacts.key, c.artifacts.threshold % 256))

prepare_retrieved_server_key(c) ==
    LET th == serialize_threshold(c.artifacts.threshold)
    IN IF th.ok
       THEN Ok(ServerKeyRetrieved(c.key_id, c.artifacts.key, th.val))
       ELSE th

\* a builder that reports a retrieval failure as a generation failure
prepare_server_key_retrieval_error_AsGeneration(c) ==
    Ok(ServerKeyGenerationError(c.key_id))

prepare_server_key_retrieval_error(c) ==
    Ok(ServerKeyRetrievalError(c.key_id))

prepare_stored_document_key(c) ==
    Ok(DocumentKeyStored(c.key_id))

prepare_document_key_store_error(c) ==
    Ok(DocumentKeyStoreError(c.key_id))

prepare_retrieved_document_key_common(c) ==
    LET th == serialize_threshold(c.artifacts.threshold)
        address == RequesterAddress(c.requester, c.key_id)
    IN IF ~th.ok THEN th
       ELSE IF ~address.ok THEN address
       ELSE Ok(DocumentKeyCommonRetrieved(c.key_id, address.val,
                    c.artifacts.common_point, th.val))

\* a builder that names this node where the call names the requester
prepare_document_key_common_retrieval_error_NodeAsRequester(c) ==
    LET address == RequesterAddress(c.requester, c.key_id)
    IN IF ~address.ok THEN address
       ELSE Ok(DocumentKeyShadowRetrievalError(c.key_id, c.key_server_address))

prepare_document_key_common_retrieval_error(c) ==
    LET address == RequesterAddress(c.requester, c.key_id)
    IN IF ~address.ok THEN address
       ELSE Ok(DocumentKeyShadowRetrievalError(c.key_id, address.val))

\* a builder that takes the coefficient of the first participant for its own
prepare_retrieved_document_key_personal_FirstCoefficient(c) ==
    LET coefficients == c.artifacts.participants_coefficients
        address == RequesterAddress(c.requester, c.key_id)
    IN IF DOMAIN coefficients = {}
       THEN Err(<<"DocumentKeyPersonalRetrieval session has completed without self coefficient">>)
       ELSE IF ~address.ok THEN address
       ELSE Ok(DocumentKeyPersonalRetrieved(c.key_id, address.val,
                    KeysOf(DOMAIN coefficients),
                    c.artifacts.encrypted_document_key,
                    coefficients[KeysOf(DOMAIN coefficients)[1]]))

prepare_retrieved_document_key_personal(c) ==
    LET coefficients == c.artifacts.participants_coefficients
        address == RequesterAddress(c.requester, c.key_id)
    IN IF c.key_server_address \notin DOMAIN coefficients
       THEN Err(<<"DocumentKeyPersonalRetrieval session has completed without self coefficient">>)
       ELSE IF ~address.ok THEN address
       ELSE Ok(DocumentKeyPersonalRetrieved(c.key_id, address.val,
                    KeysOf(DOMAIN coefficients),
                    c.artifacts.encrypted_document_key,
                    coefficients[c.key_server_address]))

prepare_document_key_personal_retrieval_error(c) ==
    LET address == RequesterAddress(c.requester, c.key_id)
    IN IF ~address.ok THEN address
       ELSE Ok(DocumentKeyShadowRetrievalError(c.key_id, address.val))

\* the calls of requester.address(&key_id) a prepare_response closure makes:
\* none in the operation-scoped closures, one in the requester-scoped ones
\* unless serialize_threshold or the self coefficient lookup failed before
prepare_resolutions(c) ==
    LET resolution == <<[ctx |-> "task", res |-> RequesterAddress(c.requester, c.key_id)]>>
    IN CASE c.kind = "DocumentKeyCommonRetrievalSuccess" ->
                IF serialize_threshold(c.artifacts.threshold).ok
                THEN resolution ELSE <<>>
         [] c.kind = "DocumentKeyCommonRetrievalFailure" -> resolution
         [] c.kind = "DocumentKeyPersonalRetrievalSuccess" ->
                IF c.key_server_address \in DOMAIN c.artifacts.participants_coefficients
                THEN resolution ELSE <<>>
         [] c.kind = "DocumentKeyPersonalRetrievalFailure" -> resolution
         [] OTHER -> <<>>

\* the call of the FnOnce closure given to submit_response_transaction
prepare_response(c) ==
    CASE c.kind = "ServerKeyGenerationSuccess" ->
            prepare_generated_server_key(c)
      [] c.kind = "ServerKeyGenerationFailure" ->
            prepare_server_key_generation_error(c)
      [] c.kind = "ServerKeyRetrievalSuccess" ->
            prepare_retrieved_server_key(c)
      [] c.kind = "ServerKeyRetrievalFailure" ->
            prepare_server_key_retrieval_error(c)
      [] c.kind = "DocumentKeyStoreSuccess" ->
            prepare_stored_document_key(c)
      [] c.kind = "DocumentKeyStoreFailure" ->
            prepare_document_key_store_error(c)
      [] c.kind = "DocumentKeyCommonRetrievalSuccess" ->
            prepare_retrieved_document_key_common(c)
      [] c.kind = "DocumentKeyCommonRetrievalFailure" ->
            prepare_document_key_common_retrieval_error(c)
      [] c.kind = "DocumentKeyPersonalRetrievalSuccess" ->
            prepare_retrieved_document_key_personal(c)
      [] c.kind = "DocumentKeyPersonalRetrievalFailure" ->
            prepare_document_key_personal_retrieval_error(c)

---------------------------------------------------------------------------
(* Log events, ledger queries, tasks *)

\* trace!(target: "secretstore", ...) and error!(target: "secretstore", ...)
LogEvent(level, message, formatted_request, detail) ==
    [level |-> level, message |-> message,
     formatted_request |-> formatted_request, detail |-> detail]

\* a call of requester.address(&key_id) and where it is made: in the caller
\* of publish_* or in the spawned task
RequesterResolution(ctx, res) ==
    [ctx |-> ctx, res |-> res]

\* a call of one of the Blockchain::is_*_response_required methods; ctx is
\* where the call is made: in the caller of publish_* or in the spawned task
BlockchainQuery(method, key_id, requester, key_server, ctx) ==
    [method |-> method, key_id |-> key_id, requester |-> requester,
     key_server |-> key_server, ctx |-> ctx]

\* is_response_required of an operation-scoped entry point: the future the
\* ledger returned for a query made while the arguments were evaluated
QueryFuture(method, key_id, key_server) ==
    [state |-> "query", method |-> method, key_id |-> key_id,
     key_server |-> key_server, res |-> Ok(NoAddress)]

\* is_response_required of a requester-scoped entry point:
\* ready(requester.address(&key_id)).and_then(|requester| blockchain.is_...)
ResolveThenQueryFuture(address, method, key_id, key_server) ==
    [state |-> "ready", method |-> method, key_id |-> key_id,
     key_server |-> key_server, res |-> address]

Free == [pc |-> "free"]

IsFree(s) == tasks[s].pc = "free"
Pending(s) == tasks[s].pc \in {"spawned", "gate_pending", "submit_pending"}
Hung(s) == tasks[s].pc \in {"gate_hung", "submit_hung"}
Done(s) == tasks[s].pc = "done"
Live(s) == ~IsFree(s)

\* the slot executor.spawn puts the next future in
NextSlot == CHOOSE s \in Slots : IsFree(s) /\ \A r \in Slots : r < s => ~IsFree(r)

---------------------------------------------------------------------------
(* submit_response_transaction *)

\* a body that is given the prepared response instead of the closure: the
\* builder has run when the future is spawned
submit_response_transaction_BuildsInCaller(origin, formatted_request, is_response_required, closure) ==
    /\ published < MaxInvocations
    /\ \E s \in Slots : IsFree(s)
    /\ tasks' = [tasks EXCEPT ![NextSlot] =
            [pc |-> "spawned",
             origin |-> origin,
             formatted_request |-> formatted_request,
             is_response_required |-> is_response_required,
             closure |-> closure,
             queries |-> IF is_response_required.state = "query"
                         THEN <<BlockchainQuery(is_response_required.method,
                                    is_response_required.key_id, NoAddress,
                                    is_response_required.key_server, "caller")>>
                         ELSE <<>>,
             resolutions |-> IF is_response_required.state = "ready"
                             THEN <<RequesterResolution("caller", is_response_required.res)>>
                             ELSE <<>>,
             gate_results |-> <<>>,
             built |-> <<prepare_response(closure)>>,
             submitted |-> <<>>,
             submit_results |-> <<>>,
             events |-> <<>>,
             spawns |-> 1,
             caller |-> "returned_unit"]]
    /\ published' = published + 1
    /\ UNCHANGED <<key_server_address, threshold, serialized>>

\* a body that runs the future to completion in the calling thread instead of
\* handing it to the executor: the caller stays blocked on it
submit_response_transaction_Blocking(origin, formatted_request, is_response_required, closure) ==
    /\ published < MaxInvocations
    /\ \A r \in Slots : Live(r) => Done(r)
    /\ \E s \in Slots : IsFree(s)
    /\ tasks' = [tasks EXCEPT ![NextSlot] =
            [pc |-> "spawned",
             origin |-> origin,
             formatted_request |-> formatted_request,
             is_response_required |-> is_response_required,
             closure |-> closure,
             queries |-> IF is_response_required.state = "query"
                         THEN <<BlockchainQuery(is_response_required.method,
                                    is_response_required.key_id, NoAddress,
                                    is_response_required.key_server, "caller")>>
                         ELSE <<>>,
             resolutions |-> IF is_response_required.state = "ready"
                             THEN <<RequesterResolution("caller", is_response_required.res)>>
                             ELSE <<>>,
             gate_results |-> <<>>,
             built |-> <<>>,
             submitted |-> <<>>,
             submit_results |-> <<>>,
             events |-> <<>>,
             spawns |-> 1,
             caller |-> "blocked"]]
    /\ published' = published + 1
    /\ UNCHANGED <<key_server_address, threshold, serialized>>

\* The body of submit_response_transaction, run by the caller of publish_*:
\* the future is composed and handed to executor.spawn, and the call returns
\* unit.  The task record keeps what the invocation has done so far: the
\* ledger queries made (queries), what is_response_required resolved to
\* (gate_results), what prepare_response returned (built), the calls given to
\* submit_transaction (submitted), what the submissions resolved to
\* (submit_results), the log events written (events) and the calls of
\* requester.address (resolutions).  The arguments of
\* submit_response_transaction are evaluated by the caller: the ledger method
\* of an operation-scoped entry point and the requester.address inside
\* ready(..) of a requester-scoped one are called before the spawn.
submit_response_transaction(origin, formatted_request, is_response_required, closure) ==
    /\ published < MaxInvocations
    /\ \E s \in Slots : IsFree(s)
    /\ tasks' = [tasks EXCEPT ![NextSlot] =
            [pc |-> "spawned",
             origin |-> origin,
             formatted_request |-> formatted_request,
             is_response_required |-> is_response_required,
             closure |-> closure,
             queries |-> IF is_response_required.state = "query"
                         THEN <<BlockchainQuery(is_response_required.method,
                                    is_response_required.key_id, NoAddress,
                                    is_response_required.key_server, "caller")>>
                         ELSE <<>>,
             resolutions |-> IF is_response_required.state = "ready"
                             THEN <<RequesterResolution("caller", is_response_required.res)>>
                             ELSE <<>>,
             gate_results |-> <<>>,
             built |-> <<>>,
             submitted |-> <<>>,
             submit_results |-> <<>>,
             events |-> <<>>,
             spawns |-> 1,
             caller |-> "returned_unit"]]
    /\ published' = published + 1
    /\ UNCHANGED <<key_server_address, threshold, serialized>>

\* a map closure that reports every submission as submitted
SubmitResultLogged_AlwaysTrace(t, submit_result) ==
    [t EXCEPT
        !.pc = "done",
        !.events = Append(@,
            LogEvent("trace", "Submitted response", t.formatted_request,
                     IF submit_result.ok THEN <<submit_result.val>>
                     ELSE submit_result.err))]

\* a map closure that hands the call to the pool once more after a failed
\* submission
SubmitResultLogged_RetryOnError(t, submit_result) ==
    IF ~submit_result.ok /\ Len(t.submitted) = 1
    THEN [t EXCEPT !.pc = "submit_pending",
                   !.submitted = Append(@, t.submitted[1])]
    ELSE [t EXCEPT
            !.pc = "done",
            !.events = Append(@,
                IF submit_result.ok
                THEN LogEvent("trace", "Submitted response",
                              t.formatted_request, <<submit_result.val>>)
                ELSE LogEvent("error", "Failed to submit response",
                              t.formatted_request, submit_result.err))]

\* a map closure that reports the missing self coefficient with a level of
\* its own
SubmitResultLogged_LoudSelfCoefficient(t, submit_result) ==
    [t EXCEPT
        !.pc = "done",
        !.events = Append(@,
            IF submit_result.ok
            THEN LogEvent("trace", "Submitted response",
                          t.formatted_request, <<submit_result.val>>)
            ELSE IF submit_result.err = <<"DocumentKeyPersonalRetrieval session has completed without self coefficient">>
            THEN LogEvent("critical", "Inconsistent session result",
                          t.formatted_request, submit_result.err)
            ELSE LogEvent("error", "Failed to submit response",
                          t.formatted_request, submit_result.err))]

\* .map(move |submit_result| match submit_result { ... }): the end of the
\* Ok(true) branch, reached with the result of the submission or with the
\* error of prepare_response
SubmitResultLogged(t, submit_result) ==
    [t EXCEPT
        !.pc = "done",
        !.events = Append(@,
            IF submit_result.ok
            THEN LogEvent("trace", "Submitted response",
                          t.formatted_request, <<submit_result.val>>)
            ELSE LogEvent("error", "Failed to submit response",
                          t.formatted_request, submit_result.err))]

\* an Ok(true) branch that hands the call to the pool twice
ResponseRequired_SubmitsTwice(t) ==
    LET prepared == prepare_response(t.closure)
        t1 == [t EXCEPT !.built = Append(@, prepared)]
    IN IF prepared.ok
       THEN [t1 EXCEPT !.pc = "submit_pending",
                       !.submitted = @ \o <<prepared.val, prepared.val>>]
       ELSE SubmitResultLogged(t1, prepared)

\* an Ok(true) branch that skips the response when another invocation has
\* already handed a call for the same key id to the pool
ResponseRequired_Deduplicating(t) ==
    LET prepared == prepare_response(t.closure)
        t1 == [t EXCEPT !.built = Append(@, prepared),
                        !.resolutions = @ \o prepare_resolutions(t.closure)]
    IN IF \E s \in Slots : /\ Live(s)
                           /\ tasks[s].submitted # <<>>
                           /\ tasks[s].closure.key_id = t.closure.key_id
       THEN [t EXCEPT !.pc = "done"]
       ELSE IF prepared.ok
       THEN [t1 EXCEPT !.pc = "submit_pending",
                       !.submitted = Append(@, prepared.val)]
       ELSE SubmitResultLogged(t1, prepared)

\* Ok(true) => ready(prepare_response()).and_then(submit_transaction)
ResponseRequired(t) ==
    LET prepared == prepare_response(t.closure)
        t1 == [t EXCEPT !.built = Append(@, prepared),
                        !.resolutions = @ \o prepare_resolutions(t.closure)]
    IN IF prepared.ok
       THEN [t1 EXCEPT !.pc = "submit_pending",
                       !.submitted = Append(@, prepared.val)]
       ELSE SubmitResultLogged(t1, prepared)

\* an Ok(false) branch that completes without logging
ResponseNotRequired_Silent(t) ==
    [t EXCEPT !.pc = "done"]

\* Ok(false) => trace!("Response {} is not required. ...")
ResponseNotRequired(t) ==
    [t EXCEPT
        !.pc = "done",
        !.events = Append(@,
            LogEvent("trace", "Response is not required. Transaction is not submitted.",
                     t.formatted_request, <<>>))]

\* an Err branch that completes without logging
CheckFailed_Silent(t, error) ==
    [t EXCEPT !.pc = "done"]

\* Err(error) => error!("Failed to check if response {} is required: {}")
CheckFailed(t, error) ==
    [t EXCEPT
        !.pc = "done",
        !.events = Append(@,
            LogEvent("error", "Failed to check if response is required",
                     t.formatted_request, error))]

\* a then closure that takes every Ok answer for Ok(true)
GateResolved_AlwaysRequired(t, is_response_required) ==
    IF ~is_response_required.ok THEN CheckFailed(t, is_response_required.err)
    ELSE ResponseRequired(t)

\* a then closure that runs the builder before it looks at the answer of the
\* gate
GateResolved_BuildsFirst(t, is_response_required) ==
    LET prepared == prepare_response(t.closure)
        t1 == [t EXCEPT !.built = Append(@, prepared)]
    IN IF ~prepared.ok THEN SubmitResultLogged(t1, prepared)
       ELSE IF ~is_response_required.ok THEN CheckFailed(t1, is_response_required.err)
       ELSE IF is_response_required.val
       THEN [t1 EXCEPT !.pc = "submit_pending",
                       !.submitted = Append(@, prepared.val)]
       ELSE ResponseNotRequired(t1)

\* the closure given to is_response_required.then(...)
GateResolved(t, is_response_required) ==
    IF ~is_response_required.ok THEN CheckFailed(t, is_response_required.err)
    ELSE IF is_response_required.val THEN ResponseRequired(t)
    ELSE ResponseNotRequired(t)

---------------------------------------------------------------------------
(* The steps of a spawned future *)

\* a first poll that queries the ledger before looking at the result of the
\* requester resolution
Poll_QueriesUnresolved(s) ==
    /\ tasks[s].pc = "spawned"
    /\ LET t == tasks[s]
           gate == t.is_response_required
       IN tasks' = [tasks EXCEPT ![s] =
            IF gate.state = "query"
            THEN [t EXCEPT !.pc = "gate_pending"]
            ELSE [t EXCEPT !.pc = "gate_pending",
                           !.queries = Append(@,
                                BlockchainQuery(gate.method, gate.key_id,
                                    IF gate.res.ok THEN gate.res.val ELSE NoAddress,
                                    gate.key_server, "task"))]]
    /\ UNCHANGED <<key_server_address, published, threshold, serialized>>

\* a first poll whose and_then closure passes the two addresses of the ledger
\* query in the wrong order
Poll_SwapsAddresses(s) ==
    /\ tasks[s].pc = "spawned"
    /\ LET t == tasks[s]
           gate == t.is_response_required
       IN tasks' = [tasks EXCEPT ![s] =
            IF gate.state = "query"
            THEN [t EXCEPT !.pc = "gate_pending"]
            ELSE IF gate.res.ok
            THEN [t EXCEPT !.pc = "gate_pending",
                           !.queries = Append(@,
                                BlockchainQuery(gate.method, gate.key_id,
                                    gate.key_server, gate.res.val, "task"))]
            ELSE GateResolved([t EXCEPT !.gate_results = Append(@, Err(gate.res.err))],
                              Err(gate.res.err))]
    /\ UNCHANGED <<key_server_address, published, threshold, serialized>>

\* The executor polls the future for the first time.  A requester-scoped
\* gate runs its and_then closure here: the ledger is queried with the
\* resolved requester address, or the resolution error goes to the then
\* closure without any query.
Poll(s) ==
    /\ tasks[s].pc = "spawned"
    /\ LET t == tasks[s]
           gate == t.is_response_required
       IN tasks' = [tasks EXCEPT ![s] =
            IF gate.state = "query"
            THEN [t EXCEPT !.pc = "gate_pending"]
            ELSE IF gate.res.ok
            THEN [t EXCEPT !.pc = "gate_pending",
                           !.queries = Append(@,
                                BlockchainQuery(gate.method, gate.key_id,
                                    gate.res.val, gate.key_server, "task"))]
            ELSE GateResolved([t EXCEPT !.gate_results = Append(@, Err(gate.res.err))],
                              Err(gate.res.err))]
    /\ UNCHANGED <<key_server_address, published, threshold, serialized>>

\* the ledger query resolves to Ok(true), Ok(false) or Err(error)
GateResolve(s, answer) ==
    /\ tasks[s].pc = "gate_pending"
    /\ tasks' = [tasks EXCEPT ![s] =
            GateResolved([tasks[s] EXCEPT !.gate_results = Append(@, answer)],
                         answer)]
    /\ UNCHANGED <<key_server_address, published, threshold, serialized>>

\* the ledger query never resolves
GateHang(s) ==
    /\ tasks[s].pc = "gate_pending"
    /\ tasks' = [tasks EXCEPT ![s].pc = "gate_hung"]
    /\ UNCHANGED <<key_server_address, published, threshold, serialized>>

\* transaction_pool.submit_transaction resolves to Ok(hash) or Err(error)
SubmitResolve(s, submit_result) ==
    /\ tasks[s].pc = "submit_pending"
    /\ tasks' = [tasks EXCEPT ![s] =
            SubmitResultLogged(
                [tasks[s] EXCEPT !.submit_results = Append(@, submit_result)],
                submit_result)]
    /\ UNCHANGED <<key_server_address, published, threshold, serialized>>

\* transaction_pool.submit_transaction never resolves
SubmitHang(s) ==
    /\ tasks[s].pc = "submit_pending"
    /\ tasks' = [tasks EXCEPT ![s].pc = "submit_hung"]
    /\ UNCHANGED <<key_server_address, published, threshold, serialized>>

\* the executor drops a future that has completed
Reap(s) ==
    /\ tasks[s].pc = "done"
    /\ tasks' = [tasks EXCEPT ![s] = Free]
    /\ UNCHANGED <<key_server_address, published, threshold, serialized>>

GateAnswers == {Ok(TRUE), Ok(FALSE)} \cup {Err(<<e>>) : e \in GateErrors}
SubmitResults == {Ok(h) : h \in TransactionHashes} \cup {Err(<<e>>) : e \in SubmitErrors}

TaskStep(s) ==
    \/ Poll(s)
    \/ \E answer \in GateAnswers : GateResolve(s, answer)
    \/ GateHang(s)
    \/ \E submit_result \in SubmitResults : SubmitResolve(s, submit_result)
    \/ SubmitHang(s)

---------------------------------------------------------------------------
(* The entry points: blockchain_service::TransactionPool *)

Closure(kind, key_id, requester, artifacts) ==
    [kind |-> kind, key_id |-> key_id, requester |-> requester,
     artifacts |-> artifacts, key_server_address |-> key_server_address]

NoArtifacts == [none |-> TRUE]

\* an entry point that gives the ledger the origin for the address of this
\* key server
publish_generated_server_key_OriginAsNode(origin, key_id, artifacts) ==
    submit_response_transaction(origin,
        <<"ServerKeyGenerationSuccess", key_id>>,
        QueryFuture("is_server_key_generation_response_required",
                    key_id, origin),
        Closure("ServerKeyGenerationSuccess", key_id, NoRequester, artifacts))

publish_generated_server_key(origin, key_id, artifacts) ==
    submit_response_transaction(origin,
        <<"ServerKeyGenerationSuccess", key_id>>,
        QueryFuture("is_server_key_generation_response_required",
                    key_id, key_server_address),
        Closure("ServerKeyGenerationSuccess", key_id, NoRequester, artifacts))

publish_server_key_generation_error(origin, key_id) ==
    submit_response_transaction(origin,
        <<"ServerKeyGenerationFailure", key_id>>,
        QueryFuture("is_server_key_generation_response_required",
                    key_id, key_server_address),
        Closure("ServerKeyGenerationFailure", key_id, NoRequester, NoArtifacts))

publish_retrieved_server_key(origin, key_id, artifacts) ==
    submit_response_transaction(origin,
        <<"ServerKeyRetrievalSuccess", key_id>>,
        QueryFuture("is_server_key_retrieval_response_required",
                    key_id, key_server_address),
        Closure("ServerKeyRetrievalSuccess", key_id, NoRequester, artifacts))

publish_server_key_retrieval_error(origin, key_id) ==
    submit_response_transaction(origin,
        <<"ServerKeyRetrievalFailure", key_id>>,
        QueryFuture("is_server_key_retrieval_response_required",
                    key_id, key_server_address),
        Closure("ServerKeyRetrievalFailure", key_id, NoRequester, NoArtifacts))

publish_stored_document_key(origin, key_id) ==
    submit_response_transaction(origin,
        <<"DocumentKeyStoreSuccess", key_id>>,
        QueryFuture("is_document_key_store_response_required",
                    key_id, key_server_address),
        Closure("DocumentKeyStoreSuccess", key_id, NoRequester, NoArtifacts))

publish_document_key_store_error(origin, key_id) ==
    submit_response_transaction(origin,
        <<"DocumentKeyStoreFailure", key_id>>,
        QueryFuture("is_document_key_store_response_required",
                    key_id, key_server_address),
        Closure("DocumentKeyStoreFailure", key_id, NoRequester, NoArtifacts))

publish_retrieved_document_key_common(origin, key_id, requester, artifacts) ==
    submit_response_transaction(origin,
        <<"DocumentKeyCommonRetrievalSuccess", key_id, requester>>,
        ResolveThenQueryFuture(RequesterAddress(requester, key_id),
            "is_document_key_shadow_retrieval_response_required",
            key_id, key_server_address),
        Closure("DocumentKeyCommonRetrievalSuccess", key_id, requester, artifacts))

\* an entry point of the common retrieval that asks the ledger with the
\* document key store query
publish_document_key_common_retrieval_error_StoreQuery(origin, key_id, requester) ==
    submit_response_transaction(origin,
        <<"DocumentKeyCommonRetrievalFailure", key_id, requester>>,
        ResolveThenQueryFuture(RequesterAddress(requester, key_id),
            "is_document_key_store_response_required",
            key_id, key_server_address),
        Closure("DocumentKeyCommonRetrievalFailure", key_id, requester, NoArtifacts))

publish_document_key_common_retrieval_error(origin, key_id, requester) ==
    submit_response_transaction(origin,
        <<"DocumentKeyCommonRetrievalFailure", key_id, requester>>,
        ResolveThenQueryFuture(RequesterAddress(requester, key_id),
            "is_document_key_shadow_retrieval_response_required",
            key_id, key_server_address),
        Closure("DocumentKeyCommonRetrievalFailure", key_id, requester, NoArtifacts))

publish_retrieved_document_key_personal(origin, key_id, requester, artifacts) ==
    submit_response_transaction(origin,
        <<"DocumentKeyPersonalRetrievalSuccess", key_id, requester>>,
        ResolveThenQueryFuture(RequesterAddress(requester, key_id),
            "is_document_key_shadow_retrieval_response_required",
            key_id, key_server_address),
        Closure("DocumentKeyPersonalRetrievalSuccess", key_id, requester, artifacts))

publish_document_key_personal_retrieval_error(origin, key_id, requester) ==
    submit_response_transaction(origin,
        <<"DocumentKeyPersonalRetrievalFailure", key_id, requester>>,
        ResolveThenQueryFuture(RequesterAddress(requester, key_id),
            "is_document_key_shadow_retrieval_response_required",
            key_id, key_server_address),
        Closure("DocumentKeyPersonalRetrievalFailure", key_id, requester, NoArtifacts))

\* the artifact bundles the session layer hands over
ServerKeyGenerationArtifacts == {[key |-> k] : k \in ServerKeys}
ServerKeyRetrievalArtifacts ==
    {[key |-> k, threshold |-> t] : k \in ServerKeys, t \in Thresholds}
DocumentKeyCommonRetrievalArtifacts ==
    {[common_point |-> p, threshold |-> t] : p \in CommonPoints, t \in Thresholds}
DocumentKeyShadowRetrievalArtifacts ==
    {[participants_coefficients |-> m, encrypted_document_key |-> d] :
        m \in CoefficientMaps, d \in EncryptedDocumentKeys}

---------------------------------------------------------------------------
(* The threshold codec on its own *)

Serialize ==
    /\ ~serialized.done
    /\ serialized' = [done |-> TRUE, res |-> serialize_threshold(threshold)]
    /\ UNCHANGED <<key_server_address, tasks, published, threshold>>

NotSerialized == [done |-> FALSE, res |-> Ok(0)]

---------------------------------------------------------------------------
(* Specifications *)

\* SubstrateTransactionPool::new: nothing is spawned yet
Init ==
    /\ key_server_address \in NodeAddresses
    /\ tasks = [s \in Slots |-> Free]
    /\ published = 0
    /\ threshold = 0
    /\ serialized = NotSerialized

\* one call of an entry point by the session layer, with its origin and key id
\* taken from the given sets
PublishFrom(origins, key_ids) ==
    \/ \E o \in origins, k \in key_ids, a \in ServerKeyGenerationArtifacts :
            publish_generated_server_key(o, k, a)
    \/ \E o \in origins, k \in key_ids :
            publish_server_key_generation_error(o, k)
    \/ \E o \in origins, k \in key_ids, a \in ServerKeyRetrievalArtifacts :
            publish_retrieved_server_key(o, k, a)
    \/ \E o \in origins, k \in key_ids :
            publish_server_key_retrieval_error(o, k)
    \/ \E o \in origins, k \in key_ids :
            publish_stored_document_key(o, k)
    \/ \E o \in origins, k \in key_ids :
            publish_document_key_store_error(o, k)
    \/ \E o \in origins, k \in key_ids, r \in Requesters,
          a \in DocumentKeyCommonRetrievalArtifacts :
            publish_retrieved_document_key_common(o, k, r, a)
    \/ \E o \in origins, k \in key_ids, r \in Requesters :
            publish_document_key_common_retrieval_error(o, k, r)
    \/ \E o \in origins, k \in key_ids, r \in Requesters,
          a \in DocumentKeyShadowRetrievalArtifacts :
            publish_retrieved_document_key_personal(o, k, r, a)
    \/ \E o \in origins, k \in key_ids, r \in Requesters :
            publish_document_key_personal_retrieval_error(o, k, r)

Publish == PublishFrom(Origins, KeyIds)

Next ==
    \/ Publish
    \/ \E s \in Slots : Poll(s)
    \/ \E s \in Slots, answer \in GateAnswers : GateResolve(s, answer)
    \/ \E s \in Slots : GateHang(s)
    \/ \E s \in Slots, submit_result \in SubmitResults : SubmitResolve(s, submit_result)
    \/ \E s \in Slots : SubmitHang(s)
    \/ \E s \in Slots : Reap(s)

Spec == Init /\ [][Next]_vars

\* the executor runs every spawned future whenever it can make progress
FairSpec == Spec /\ \A s \in Slots : WF_vars(TaskStep(s))

\* the same service called with two origins, for one key id
WideOrigins == {1, 2}
OneKeyId == {1}

NextOrigin ==
    \/ PublishFrom(WideOrigins, OneKeyId)
    \/ \E s \in Slots : Poll(s)
    \/ \E s \in Slots, answer \in GateAnswers : GateResolve(s, answer)
    \/ \E s \in Slots : GateHang(s)
    \/ \E s \in Slots, submit_result \in SubmitResults : SubmitResolve(s, submit_result)
    \/ \E s \in Slots : SubmitHang(s)
    \/ \E s \in Slots : Reap(s)

SpecOrigin == Init /\ [][NextOrigin]_vars

InitThreshold ==
    /\ key_server_address \in NodeAddresses
    /\ tasks = [s \in Slots |-> Free]
    /\ published = 0
    /\ threshold \in 0..MaxThreshold
    /\ serialized = NotSerialized

NextThreshold == Serialize

SpecThreshold == InitThreshold /\ [][NextThreshold]_vars

---------------------------------------------------------------------------
(* Properties *)

OperationScopedKinds ==
    {"ServerKeyGenerationSuccess", "ServerKeyGenerationFailure",
     "ServerKeyRetrievalSuccess", "ServerKeyRetrievalFailure",
     "DocumentKeyStoreSuccess", "DocumentKeyStoreFailure"}
RequesterScopedKinds ==
    {"DocumentKeyCommonRetrievalSuccess", "DocumentKeyCommonRetrievalFailure",
     "DocumentKeyPersonalRetrievalSuccess", "DocumentKeyPersonalRetrievalFailure"}
InfallibleKinds ==
    {"ServerKeyGenerationSuccess", "ServerKeyGenerationFailure",
     "ServerKeyRetrievalFailure",
     "DocumentKeyStoreSuccess", "DocumentKeyStoreFailure"}

KindOf(s) == tasks[s].closure.kind
GateFalse(s) == Live(s) /\ tasks[s].gate_results = <<Ok(FALSE)>>
GateTrue(s) == Live(s) /\ tasks[s].gate_results = <<Ok(TRUE)>>
GateFailed(s) ==
    Live(s) /\ Len(tasks[s].gate_results) = 1 /\ ~tasks[s].gate_results[1].ok
ResolutionFails(s) ==
    /\ Live(s)
    /\ KindOf(s) \in RequesterScopedKinds
    /\ ~RequesterAddress(tasks[s].closure.requester, tasks[s].closure.key_id).ok

\* C1: in an invocation of any entry point whose gate resolved to Ok(false)
\* the builder has not run, nothing was given to submit_transaction, and the
\* only event is the trace event "response is not required".
C1_GateFalseSubmitsNothing ==
    \A s \in Slots : GateFalse(s) =>
        /\ tasks[s].built = <<>>
        /\ tasks[s].submitted = <<>>
        /\ tasks[s].events =
            <<LogEvent("trace", "Response is not required. Transaction is not submitted.",
                       tasks[s].formatted_request, <<>>)>>

\* C1 witness: an operation-scoped and a requester-scoped invocation have
\* both ended on a false gate
C1_Witness ==
    /\ GateFalse(1) /\ Done(1) /\ KindOf(1) \in OperationScopedKinds
    /\ GateFalse(2) /\ Done(2) /\ KindOf(2) \in RequesterScopedKinds

\* C2: in an invocation whose gate future resolved to Err(e) the builder has
\* not run, nothing was submitted, and exactly one error event was written,
\* carrying e and the label of the operation.
C2_GateErrorSubmitsNothing ==
    \A s \in Slots : GateFailed(s) =>
        /\ tasks[s].built = <<>>
        /\ tasks[s].submitted = <<>>
        /\ tasks[s].events =
            <<LogEvent("error", "Failed to check if response is required",
                       tasks[s].formatted_request, tasks[s].gate_results[1].err)>>

\* C2 witness: the ledger query of an invocation has failed
C2_Witness ==
    \E s \in Slots :
        /\ GateFailed(s) /\ Done(s)
        /\ Len(tasks[s].queries) = 1
        /\ tasks[s].gate_results[1].err = <<"ledger unavailable">>

\* C3: when requester.address(key_id) fails in a requester-scoped invocation,
\* the ledger is never queried, the builder never runs, nothing is submitted,
\* and the invocation ends with exactly one error event whose label names the
\* key id.
C3_ResolutionFailureSkipsGate ==
    \A s \in Slots : ResolutionFails(s) =>
        /\ tasks[s].queries = <<>>
        /\ tasks[s].built = <<>>
        /\ tasks[s].submitted = <<>>
        /\ tasks[s].pc \in {"spawned", "done"}
        /\ tasks[s].pc = "spawned" => tasks[s].events = <<>>
        /\ tasks[s].pc = "done" =>
            /\ Len(tasks[s].events) = 1
            /\ tasks[s].events[1].level = "error"
            /\ tasks[s].events[1].formatted_request =
                    <<KindOf(s), tasks[s].closure.key_id, tasks[s].closure.requester>>
            /\ tasks[s].events[1].detail =
                    RequesterAddress(tasks[s].closure.requester,
                                     tasks[s].closure.key_id).err

\* C3 witness: a requester-scoped invocation has ended on a resolution failure
C3_Witness ==
    \E s \in Slots : ResolutionFails(s) /\ Done(s) /\ tasks[s].closure.key_id = 2

\* C4: when the gate resolved to Ok(true) and the builder returned Ok(call),
\* submit_transaction was called exactly once, with that call; for the five
\* kinds whose builder cannot fail a true gate always gives one submission.
C4_TrueGateSubmitsOnce ==
    \A s \in Slots : GateTrue(s) =>
        /\ Len(tasks[s].built) = 1
        /\ tasks[s].built[1].ok => tasks[s].submitted = <<tasks[s].built[1].val>>
        /\ KindOf(s) \in InfallibleKinds =>
            /\ tasks[s].built[1].ok
            /\ Len(tasks[s].submitted) = 1

\* C4 witness: a call of an infallible kind and a call of a fallible kind
\* have both been handed to the pool
C4_Witness ==
    /\ GateTrue(1) /\ KindOf(1) \in InfallibleKinds /\ Len(tasks[1].submitted) = 1
    /\ GateTrue(2) /\ KindOf(2) \notin InfallibleKinds /\ Len(tasks[2].submitted) = 1

BuilderSucceeded(s) ==
    GateTrue(s) /\ Len(tasks[s].built) = 1 /\ tasks[s].built[1].ok
BuilderFailed(s) ==
    GateTrue(s) /\ Len(tasks[s].built) = 1 /\ ~tasks[s].built[1].ok
SubmissionResolved(s) ==
    BuilderSucceeded(s) /\ Len(tasks[s].submit_results) = 1

\* C5: with a true gate and a successful builder, a submission that resolved
\* to Ok(H) leaves exactly one trace event containing H and no error event, a
\* submission that resolved to Err(reason) leaves exactly one error event
\* containing reason and no trace event, and the caller of publish_* got unit.
C5_SubmissionOutcomeLogged ==
    \A s \in Slots : SubmissionResolved(s) =>
        LET submit_result == tasks[s].submit_results[1]
        IN /\ submit_result.ok =>
                tasks[s].events =
                    <<LogEvent("trace", "Submitted response",
                               tasks[s].formatted_request, <<submit_result.val>>)>>
           /\ ~submit_result.ok =>
                tasks[s].events =
                    <<LogEvent("error", "Failed to submit response",
                               tasks[s].formatted_request, submit_result.err)>>
           /\ tasks[s].caller = "returned_unit"

\* C5 witness: one submission was accepted with hash 0xH, another one was
\* refused with "pool full"
C5_Witness ==
    /\ SubmissionResolved(1) /\ tasks[1].submit_results = <<Ok("0xH")>>
    /\ SubmissionResolved(2) /\ tasks[2].submit_results = <<Err(<<"pool full">>)>>

ThresholdTooLarge(s) ==
    /\ KindOf(s) \in {"ServerKeyRetrievalSuccess", "DocumentKeyCommonRetrievalSuccess"}
    /\ tasks[s].closure.artifacts.threshold > U8Max
SelfCoefficientMissing(s) ==
    /\ KindOf(s) = "DocumentKeyPersonalRetrievalSuccess"
    /\ tasks[s].closure.key_server_address \notin
            DOMAIN tasks[s].closure.artifacts.participants_coefficients

\* C6: with a true gate, a threshold above 255 (server key retrieval, document
\* key common retrieval) or a missing self coefficient (document key personal
\* retrieval) makes the builder fail, and after a builder failure nothing was
\* given to submit_transaction and exactly one error event carries the reason.
C6_BuilderFailureSubmitsNothing ==
    \A s \in Slots : GateTrue(s) =>
        /\ ThresholdTooLarge(s) =>
            /\ BuilderFailed(s)
            /\ tasks[s].built[1].err =
                <<"invalid threshold to use in service contract",
                  tasks[s].closure.artifacts.threshold>>
        /\ SelfCoefficientMissing(s) => BuilderFailed(s)
        /\ BuilderFailed(s) =>
            /\ tasks[s].submitted = <<>>
            /\ tasks[s].submit_results = <<>>
            /\ tasks[s].events =
                <<LogEvent("error", "Failed to submit response",
                           tasks[s].formatted_request, tasks[s].built[1].err)>>

\* C6 witness: a builder has failed on the threshold and another one on the
\* self coefficient
C6_Witness ==
    /\ GateTrue(1) /\ ThresholdTooLarge(1) /\ Done(1)
    /\ GateTrue(2) /\ SelfCoefficientMissing(2) /\ Done(2)

\* C7: serialize_threshold(t) is Ok(t) for every t in 0..255 and an error for
\* every t >= 256; it never returns the low byte of a larger value.
C7_ThresholdCodec ==
    serialized.done =>
        /\ threshold <= 255 => serialized.res = Ok(threshold)
        /\ threshold >= 256 => ~serialized.res.ok

\* C7 witness: the codec has run on 256, whose low byte is 0
C7_Witness ==
    serialized.done /\ threshold = 256

\* C8: the builder of publish_retrieved_document_key_personal fails with the
\* self coefficient error when participants_coefficients has no entry for
\* key_server_address; with the entry it succeeds, the self coefficient of the
\* call is the mapped value and the participants of the call are the keys of
\* the map.
C8_PersonalRetrievalBuilder ==
    \A s \in Slots :
        (GateTrue(s) /\ KindOf(s) = "DocumentKeyPersonalRetrievalSuccess") =>
            LET coefficients == tasks[s].closure.artifacts.participants_coefficients
                built == tasks[s].built[1]
            IN /\ Len(tasks[s].built) = 1
               /\ key_server_address \notin DOMAIN coefficients =>
                    built = Err(<<"DocumentKeyPersonalRetrieval session has completed without self coefficient">>)
               /\ key_server_address \in DOMAIN coefficients =>
                    /\ built.ok
                    /\ built.val.variant = "DocumentKeyPersonalRetrieved"
                    /\ built.val.self_coefficient = coefficients[key_server_address]
                    /\ {built.val.participants[i] :
                            i \in 1..Len(built.val.participants)} = DOMAIN coefficients

\* C8 witness: one builder ran on a map of two participants in which this
\* node is the second, another one on a map without this node
C8_Witness ==
    /\ key_server_address = 2
    /\ GateTrue(1) /\ KindOf(1) = "DocumentKeyPersonalRetrievalSuccess"
    /\ DOMAIN tasks[1].closure.artifacts.participants_coefficients = {1, 2}
    /\ GateTrue(2) /\ KindOf(2) = "DocumentKeyPersonalRetrievalSuccess"
    /\ DOMAIN tasks[2].closure.artifacts.participants_coefficients = {1}

\* C9: every entry point returns to its caller once the future is spawned,
\* whatever the future is waiting for; a future whose gate query or
\* submission has not resolved, or never will, leaves every other spawned
\* future able to take its next step and the caller able to publish again.
C9_NonBlocking ==
    /\ \A s \in Slots : Live(s) =>
            /\ tasks[s].caller = "returned_unit"
            /\ tasks[s].spawns = 1
    /\ \A s \in Slots : (Live(s) /\ ~Done(s)) =>
            /\ \A r \in Slots : (r # s /\ Pending(r)) => ENABLED TaskStep(r)
            /\ ((\E r \in Slots : IsFree(r)) /\ published < MaxInvocations)
                    => ENABLED Publish

\* C9 witness: the gate query of one invocation never resolves while a later
\* invocation has run to its end
C9_Witness ==
    /\ tasks[1].pc = "gate_hung" /\ tasks[1].caller = "returned_unit"
    /\ Done(2) /\ published = 3

TerminalMessages ==
    {"Submitted response", "Failed to submit response",
     "Response is not required. Transaction is not submitted.",
     "Failed to check if response is required"}

\* C10: every spawned invocation whose gate future and submission future
\* resolve reaches its end, and an invocation has written no event before its
\* end and exactly one event at its end, for one of the four terminal states;
\* the caller got unit.
C10_EndsWithExactlyOneEvent ==
    /\ [](\A s \in Slots : Live(s) =>
            /\ Len(tasks[s].events) <= 1
            /\ Done(s) <=> Len(tasks[s].events) = 1
            /\ Done(s) => tasks[s].events[1].message \in TerminalMessages
            /\ tasks[s].caller = "returned_unit")
    /\ \A s \in Slots : Live(s) ~> (Done(s) \/ Hung(s))

\* C10 witness: two invocations have ended in different terminal states
C10_Witness ==
    /\ Done(1) /\ tasks[1].events[1].message = "Submitted response"
    /\ Done(2) /\ tasks[2].events[1].message = "Failed to check if response is required"


\* C11: no stage is retried: in one invocation the ledger is queried at most
\* once, the gate future resolves at most once, the builder runs at most once
\* and submit_transaction is called at most once, also after a gate error, a
\* builder error or a submission error; an invocation that has ended does
\* nothing more.
C11_NoStageRetried ==
    /\ [](\A s \in Slots : Live(s) =>
            /\ Len(tasks[s].queries) <= 1
            /\ Len(tasks[s].gate_results) <= 1
            /\ Len(tasks[s].built) <= 1
            /\ Len(tasks[s].submitted) <= 1
            /\ Len(tasks[s].submit_results) <= 1)
    /\ [][\A s \in Slots : Done(s) => (tasks'[s] = tasks[s] \/ tasks'[s] = Free)]_vars

\* C11 witness: an invocation has ended on a failed submission, another one
\* on a failed builder
C11_Witness ==
    /\ Done(1) /\ Len(tasks[1].submit_results) = 1 /\ ~tasks[1].submit_results[1].ok
    /\ Len(tasks[1].queries) = 1 /\ Len(tasks[1].submitted) = 1
    /\ Done(2) /\ BuilderFailed(2)


Built(s) == Live(s) /\ Len(tasks[s].built) = 1 /\ tasks[s].built[1].ok
VariantOf(s) == tasks[s].built[1].val.variant
RetrievalFailureKinds ==
    {"DocumentKeyCommonRetrievalFailure", "DocumentKeyPersonalRetrievalFailure"}

\* C12 as claimed: two invocations of different entry points never build the
\* same SecretStoreCall variant.
C12_OneVariantPerKind ==
    \A s, r \in Slots :
        (Built(s) /\ Built(r) /\ KindOf(s) # KindOf(r)) => VariantOf(s) # VariantOf(r)

\* C12 as amended: an entry point always builds the same variant, and two
\* different entry points build different variants except the two document
\* key retrieval failures (common and personal), which both build
\* DocumentKeyShadowRetrievalError.
C12_OneVariantPerKindButRetrievalFailure ==
    \A s, r \in Slots : (Built(s) /\ Built(r)) =>
        /\ KindOf(s) = KindOf(r) => VariantOf(s) = VariantOf(r)
        /\ (KindOf(s) # KindOf(r) /\ VariantOf(s) = VariantOf(r)) =>
                /\ {KindOf(s), KindOf(r)} = RetrievalFailureKinds
                /\ VariantOf(s) = "DocumentKeyShadowRetrievalError"
        /\ {KindOf(s), KindOf(r)} = RetrievalFailureKinds =>
                VariantOf(s) = VariantOf(r)

\* C12 witness: a common and a personal retrieval failure have both built
\* their call
C12_Witness ==
    /\ Built(1) /\ KindOf(1) = "DocumentKeyCommonRetrievalFailure"
    /\ Built(2) /\ KindOf(2) = "DocumentKeyPersonalRetrievalFailure"


\* C13: the stages of an invocation are ordered gate, builder, submit: the
\* builder has run only if the gate resolved to Ok(true), and
\* submit_transaction was called only if the builder returned Ok; so a
\* threshold out of range or a missing self coefficient under a false gate
\* ends in the trace event "not required" and no error event.
C13_GateThenBuilderThenSubmit ==
    \A s \in Slots : Live(s) =>
        /\ tasks[s].built # <<>> => tasks[s].gate_results = <<Ok(TRUE)>>
        /\ tasks[s].submitted # <<>> =>
                (tasks[s].built # <<>> /\ tasks[s].built[1].ok)
        /\ tasks[s].submit_results # <<>> => tasks[s].submitted # <<>>
        /\ (GateFalse(s) /\ (ThresholdTooLarge(s) \/ SelfCoefficientMissing(s))) =>
                /\ Len(tasks[s].events) = 1
                /\ tasks[s].events[1].level = "trace"
                /\ tasks[s].events[1].message =
                        "Response is not required. Transaction is not submitted."

\* C13 witness: a false gate has ended an invocation whose threshold is out
\* of range and one whose self coefficient is missing
C13_Witness ==
    /\ GateFalse(1) /\ ThresholdTooLarge(1) /\ Done(1)
    /\ GateFalse(2) /\ SelfCoefficientMissing(2) /\ Done(2)


\* C14 as claimed: an invocation spawns one future, and the requester
\* resolution, the call of the ledger query, the builder and the submission
\* all happen in that future, none of them in the caller before the spawn.
C14_AllInsideSpawnedFuture ==
    \A s \in Slots : Live(s) =>
        /\ tasks[s].spawns = 1
        /\ \A i \in 1..Len(tasks[s].resolutions) : tasks[s].resolutions[i].ctx = "task"
        /\ \A i \in 1..Len(tasks[s].queries) : tasks[s].queries[i].ctx = "task"
        /\ tasks[s].pc = "spawned" =>
                (tasks[s].built = <<>> /\ tasks[s].submitted = <<>>)

\* C14 as amended: an invocation spawns one future; the resolution of the
\* gate future, the builder, the submission and the logging happen in that
\* future.  The caller, before the spawn, calls the ledger method of an
\* operation-scoped entry point (the future it returns is awaited in the
\* spawned future) and the first requester.address of a requester-scoped
\* entry point; the ledger method of a requester-scoped entry point and the
\* second requester.address are called in the spawned future.
C14_SpawnedOnceArgumentsInCaller ==
    \A s \in Slots : Live(s) =>
        /\ tasks[s].spawns = 1
        /\ tasks[s].pc = "spawned" =>
                /\ tasks[s].gate_results = <<>>
                /\ tasks[s].built = <<>>
                /\ tasks[s].submitted = <<>>
                /\ tasks[s].events = <<>>
        /\ KindOf(s) \in OperationScopedKinds =>
                /\ Len(tasks[s].queries) = 1
                /\ tasks[s].queries[1].ctx = "caller"
                /\ tasks[s].resolutions = <<>>
        /\ KindOf(s) \in RequesterScopedKinds =>
                /\ Len(tasks[s].resolutions) \in {1, 2}
                /\ tasks[s].resolutions[1].ctx = "caller"
                /\ Len(tasks[s].resolutions) = 2 =>
                        (tasks[s].resolutions[2].ctx = "task" /\ tasks[s].built # <<>>)
                /\ \A i \in 1..Len(tasks[s].queries) : tasks[s].queries[i].ctx = "task"
                /\ tasks[s].pc = "spawned" => tasks[s].queries = <<>>

\* C14 witness: an operation-scoped future not yet polled whose ledger method
\* was called, and a requester-scoped future that has queried the ledger and
\* resolved the requester a second time
C14_Witness ==
    /\ tasks[1].pc = "spawned" /\ KindOf(1) \in OperationScopedKinds
    /\ Len(tasks[1].queries) = 1
    /\ Live(2) /\ KindOf(2) \in RequesterScopedKinds
    /\ Len(tasks[2].queries) = 1 /\ Len(tasks[2].resolutions) = 2


\* C15: every ledger query of an invocation carries the key id of the
\* invocation and the key_server_address given at construction, which no
\* step changes; a requester-scoped entry point also passes the address
\* resolved from its requester and key id, an operation-scoped one passes no
\* requester.
C15_GateQueryArguments ==
    /\ [](\A s \in Slots : Live(s) =>
            \A i \in 1..Len(tasks[s].queries) :
                LET query == tasks[s].queries[i]
                IN /\ query.key_id = tasks[s].closure.key_id
                   /\ query.key_id = tasks[s].formatted_request[2]
                   /\ query.key_server = key_server_address
                   /\ KindOf(s) \in OperationScopedKinds =>
                            query.requester = NoAddress
                   /\ KindOf(s) \in RequesterScopedKinds =>
                            Ok(query.requester) =
                                RequesterAddress(tasks[s].closure.requester,
                                                 tasks[s].closure.key_id))
    /\ [][key_server_address' = key_server_address]_vars

\* C15 witness: an operation-scoped and a requester-scoped invocation for
\* key id 2 have queried the ledger
C15_Witness ==
    /\ Live(1) /\ KindOf(1) \in OperationScopedKinds /\ Len(tasks[1].queries) = 1
    /\ Live(2) /\ KindOf(2) \in RequesterScopedKinds /\ Len(tasks[2].queries) = 1
    /\ tasks[2].queries[1].key_id = 2 /\ tasks[2].queries[1].requester = 12


SameOperation(s, r) ==
    /\ s # r /\ Live(s) /\ Live(r)
    /\ tasks[s].closure.key_id = tasks[r].closure.key_id

\* C16: invocations are not synchronized: of two invocations for the same key
\* id each makes its own ledger query, and when both queries resolved to
\* Ok(true) both have run their builder and, the builder succeeding, both
\* have called submit_transaction; a submission of one never keeps the gate
\* of the other from resolving to Ok(true).
C16_SameOperationNotSynchronized ==
    \A s, r \in Slots : SameOperation(s, r) =>
        /\ (tasks[s].pc = "gate_pending" /\ tasks[r].pc = "gate_pending") =>
                (Len(tasks[s].queries) = 1 /\ Len(tasks[r].queries) = 1)
        /\ (GateTrue(s) /\ GateTrue(r)) =>
                /\ Len(tasks[s].built) = 1 /\ Len(tasks[r].built) = 1
                /\ tasks[r].built[1].ok =>
                        tasks[r].submitted = <<tasks[r].built[1].val>>
        /\ (tasks[s].submitted # <<>> /\ tasks[r].pc = "gate_pending") =>
                ENABLED GateResolve(r, Ok(TRUE))

\* C16 witness: the success and the failure of the generation of the same
\* server key are both in the pool
C16_Witness ==
    /\ SameOperation(1, 2)
    /\ KindOf(1) = "ServerKeyGenerationSuccess"
    /\ KindOf(2) = "ServerKeyGenerationFailure"
    /\ tasks[1].pc = "submit_pending" /\ Len(tasks[1].submitted) = 1
    /\ tasks[2].pc = "submit_pending" /\ Len(tasks[2].submitted) = 1


SelfCoefficientFailure(s) ==
    GateTrue(s) /\ SelfCoefficientMissing(s) /\ Done(s)
SubmissionFailed(s) ==
    SubmissionResolved(s) /\ ~tasks[s].submit_results[1].ok
OtherFailure(s) ==
    /\ Live(s) /\ Done(s)
    /\ \/ GateFailed(s)
       \/ GateTrue(s) /\ ThresholdTooLarge(s)
       \/ SubmissionFailed(s)
EventKind(s) == <<tasks[s].events[1].level, tasks[s].events[1].message>>

\* C17 as claimed: the event of a missing self coefficient differs in level
\* or in message from the event of every other failure (requester
\* resolution, gate, threshold out of range, submission).
C17_SelfCoefficientDistinguished ==
    \A s, r \in Slots :
        (SelfCoefficientFailure(s) /\ OtherFailure(r)) => EventKind(s) # EventKind(r)

\* C17 as amended: a missing self coefficient is logged at level error with
\* the message "Failed to submit response", the level of every other failure
\* and the very message of a threshold out of range and of a failed
\* submission; it differs from those only in the reason text, and from a
\* gate or resolution failure in the message too.
C17_SelfCoefficientLoggedLikeOtherFailures ==
    \A s, r \in Slots : (SelfCoefficientFailure(s) /\ OtherFailure(r)) =>
        /\ Len(tasks[s].events) = 1 /\ Len(tasks[r].events) = 1
        /\ tasks[s].events[1].level = "error"
        /\ tasks[r].events[1].level = "error"
        /\ tasks[s].events[1].message = "Failed to submit response"
        /\ tasks[s].events[1].detail =
            <<"DocumentKeyPersonalRetrieval session has completed without self coefficient">>
        /\ tasks[r].events[1].detail # tasks[s].events[1].detail
        /\ GateFailed(r) =>
            tasks[r].events[1].message = "Failed to check if response is required"
        /\ ~GateFailed(r) => EventKind(r) = EventKind(s)

\* C17 witness: one invocation has ended on a missing self coefficient,
\* another one on a threshold out of range
C17_Witness ==
    /\ SelfCoefficientFailure(1)
    /\ OtherFailure(2) /\ GateTrue(2) /\ ThresholdTooLarge(2)


\* C18: in a requester-scoped invocation that has submitted a call, the
\* requester of the call is the requester address given to the ledger query
\* of the same invocation, and once the gate was reached the second
\* requester.address of the builder gives the result of the first and never
\* fails: a builder fails on the threshold or the self coefficient only.
C18_CallNamesGateRequester ==
    \A s \in Slots : (Live(s) /\ KindOf(s) \in RequesterScopedKinds) =>
        /\ tasks[s].submitted # <<>> =>
                /\ Len(tasks[s].queries) = 1
                /\ tasks[s].submitted[1].requester = tasks[s].queries[1].requester
                /\ tasks[s].submitted[1].key_id = tasks[s].queries[1].key_id
        /\ Len(tasks[s].resolutions) = 2 =>
                /\ tasks[s].resolutions[2].res.ok
                /\ tasks[s].resolutions[2].res = tasks[s].resolutions[1].res
        /\ BuilderFailed(s) => (ThresholdTooLarge(s) \/ SelfCoefficientMissing(s))
        /\ (GateTrue(s) /\ ~ThresholdTooLarge(s) /\ ~SelfCoefficientMissing(s)) =>
                Len(tasks[s].submitted) = 1

\* C18 witness: a common retrieval failure and a personal retrieval success
\* have submitted calls that name the requesters of key 1 and of key 2
C18_Witness ==
    /\ Live(1) /\ KindOf(1) = "DocumentKeyCommonRetrievalFailure"
    /\ Len(tasks[1].submitted) = 1 /\ tasks[1].submitted[1].requester = 11
    /\ Live(2) /\ KindOf(2) = "DocumentKeyPersonalRetrievalSuccess"
    /\ Len(tasks[2].submitted) = 1 /\ tasks[2].submitted[1].requester = 12


OnlyOriginDiffers(s, r) ==
    /\ Live(s) /\ Live(r)
    /\ tasks[s].origin # tasks[r].origin
    /\ tasks[s].closure = tasks[r].closure

\* C19: the origin argument has no effect: two invocations that differ only
\* in their origin have the same label, make the same ledger query, and,
\* given the same answers of the ledger and of the pool, build the same call,
\* make the same submission and write the same events.
C19_OriginHasNoEffect ==
    \A s, r \in Slots : OnlyOriginDiffers(s, r) =>
        /\ tasks[s].formatted_request = tasks[r].formatted_request
        /\ tasks[s].is_response_required = tasks[r].is_response_required
        /\ (tasks[s].pc # "spawned" /\ tasks[r].pc # "spawned") =>
                tasks[s].queries = tasks[r].queries
        /\ tasks[s].gate_results = tasks[r].gate_results =>
                /\ tasks[s].built = tasks[r].built
                /\ tasks[s].submitted = tasks[r].submitted
                /\ tasks[s].submit_results = tasks[r].submit_results =>
                        tasks[s].events = tasks[r].events

\* C19 witness: two invocations that differ in their origin only have both
\* ended on an accepted submission
C19_Witness ==
    /\ OnlyOriginDiffers(1, 2)
    /\ Done(1) /\ Done(2)
    /\ tasks[1].submit_results = <<Ok("0xH")>>
    /\ tasks[2].submit_results = <<Ok("0xH")>>


\* the entry points that answer the same kind of request
Family(s) ==
    CASE KindOf(s) \in {"ServerKeyGenerationSuccess", "ServerKeyGenerationFailure"}
            -> "ServerKeyGeneration"
      [] KindOf(s) \in {"ServerKeyRetrievalSuccess", "ServerKeyRetrievalFailure"}
            -> "ServerKeyRetrieval"
      [] KindOf(s) \in {"DocumentKeyStoreSuccess", "DocumentKeyStoreFailure"}
            -> "DocumentKeyStore"
      [] KindOf(s) \in RequesterScopedKinds
            -> "DocumentKeyRetrieval"

\* the arm of the then closure an invocation has taken, read from what it did
GateBranch(s) ==
    IF tasks[s].built # <<>> THEN "required"
    ELSE IF tasks[s].events # <<>> THEN tasks[s].events[1].message
    ELSE "undecided"

SameRequest(s, r) ==
    /\ Live(s) /\ Live(r)
    /\ Family(s) = Family(r)
    /\ tasks[s].closure.key_id = tasks[r].closure.key_id
    /\ tasks[s].closure.requester = tasks[r].closure.requester

\* C20: the success and the failure entry point of one family make the same
\* ledger query with the same arguments; the four document key retrieval
\* entry points, common and personal, all make the requester-scoped query
\* is_document_key_shadow_retrieval_response_required; so for the same
\* operation id and requester and the same answer of the gate they take the
\* same arm of the gate.
C20_FamilySharesGateQuery ==
    \A s, r \in Slots : SameRequest(s, r) =>
        /\ (tasks[s].queries # <<>> /\ tasks[r].queries # <<>>) =>
                tasks[s].queries = tasks[r].queries
        /\ (Family(s) = "DocumentKeyRetrieval" /\ tasks[s].queries # <<>>) =>
                /\ tasks[s].queries[1].method =
                        "is_document_key_shadow_retrieval_response_required"
                /\ tasks[s].queries[1].requester # NoAddress
        /\ (tasks[s].gate_results # <<>> /\ tasks[s].gate_results = tasks[r].gate_results) =>
                GateBranch(s) = GateBranch(r)

\* C20 witness: a common retrieval failure and a personal retrieval success
\* for the same key and requester have both been told that a response is
\* required
C20_Witness ==
    /\ SameRequest(1, 2)
    /\ KindOf(1) = "DocumentKeyCommonRetrievalFailure"
    /\ KindOf(2) = "DocumentKeyPersonalRetrievalSuccess"
    /\ GateTrue(1) /\ GateTrue(2)
    /\ Len(tasks[1].queries) = 1 /\ Len(tasks[2].queries) = 1
    /\ GateBranch(1) = "required" /\ GateBranch(2) = "required"

====
